---- MODULE Spec2Model ----
(***************************************************************************)
(* A model of goog.i18n.BidiFormatter (closure/goog/i18n/bidiformatter.js). *)
(*                                                                         *)
(* Values.  A goog.i18n.bidi.Dir is one of the numbers 1 (LTR), -1 (RTL)   *)
(* and 0 (NEUTRAL); a nullable Dir may also be null.  They are written     *)
(* here by name, and Number(d) gives the number JavaScript's Number()      *)
(* gives (Number(null) is 0), so that d1 = d2 is JavaScript's d1 == d2 on  *)
(* these values (null == 0 is false in JavaScript).                        *)
(*                                                                         *)
(* A string is a sequence of characters.  The characters of an input text  *)
(* are taken by their bidi class: "L" a strong LTR letter, "R" a strong    *)
(* RTL letter, "N" a neutral character and "T" a markup tag such as <b>    *)
(* (skipped when the text is HTML, Latin letters when it is not).  The     *)
(* formatting characters are LRM, RLM, LRE, RLE and PDF; the tags the      *)
(* formatter itself produces are SpanOpen(...) and SpanClose.              *)
(***************************************************************************)
EXTENDS Integers, Sequences, FiniteSets

\* Longest input text, in characters.
MaxLen == 2
\* Largest magnitude of a number passed as a context directionality.
MaxNum == 2

LTR == "LTR"
RTL == "RTL"
NEUTRAL == "NEUTRAL"
null == "null"
undefined == "undefined"

Dir == {LTR, RTL, NEUTRAL}
NullableDir == Dir \cup {null}
ContextDir == {LTR, RTL, null}

LRE == "LRE"
RLE == "RLE"
PDF == "PDF"
LRM == "LRM"
RLM == "RLM"

RIGHT == "right"
LEFT == "left"

TextChar == {"L", "R", "N", "T"}
Text == UNION {[1..n -> TextChar] : n \in 0..MaxLen}

\* An optional boolean argument: true, false, or left out.
OptBool == {"true", "false", undefined}

\* What may be passed as a context directionality: a number (a Dir constant
\* is the number 1, -1 or 0), a boolean, or null.
DirInput ==
  [type : {"number"}, num : (-MaxNum)..MaxNum] \cup
  [type : {"boolean"}, bool : BOOLEAN] \cup
  [type : {"null"}]

Number(d) == CASE d = LTR -> 1 [] d = RTL -> -1 [] OTHER -> 0

-----------------------------------------------------------------------------
(* goog.i18n.bidi: the direction estimator the formatter calls.            *)

toDir(givenDir, opt_noNeutral) ==
  IF givenDir.type = "number"
    THEN IF givenDir.num > 0 THEN LTR
         ELSE IF givenDir.num < 0 THEN RTL
         ELSE IF opt_noNeutral THEN null ELSE NEUTRAL
  ELSE IF givenDir.type = "null" THEN null
  ELSE IF givenDir.bool THEN RTL ELSE LTR

\* The strong characters of str in order: tags are dropped from HTML and
\* are Latin letters otherwise; neutral characters are dropped.
RECURSIVE StrongChars(_, _)
StrongChars(str, isHtml) ==
  IF str = <<>> THEN <<>>
  ELSE LET c == Head(str)
           rest == StrongChars(Tail(str), isHtml)
       IN  IF c = "L" \/ (c = "T" /\ ~isHtml) THEN <<"L">> \o rest
           ELSE IF c = "R" THEN <<"R">> \o rest
           ELSE rest

RECURSIVE CountOf(_, _)
CountOf(s, c) ==
  IF s = <<>> THEN 0
  ELSE (IF Head(s) = c THEN 1 ELSE 0) + CountOf(Tail(s), c)

\* RTL when more than 40% of the strong characters are RTL.
estimateDirection(str, opt_isHtml) ==
  LET strong == StrongChars(str, opt_isHtml)
      rtlCount == CountOf(strong, "R")
      totalCount == Len(strong)
  IN  IF totalCount = 0 THEN NEUTRAL
      ELSE IF rtlCount * 100 > 40 * totalCount THEN RTL
      ELSE LTR

endsWithRtl(str, opt_isHtml) ==
  LET strong == StrongChars(str, opt_isHtml)
  IN  strong # <<>> /\ strong[Len(strong)] = "R"

endsWithLtr(str, opt_isHtml) ==
  LET strong == StrongChars(str, opt_isHtml)
  IN  strong # <<>> /\ strong[Len(strong)] = "L"

-----------------------------------------------------------------------------
(* goog.html.SafeHtml: an HTML value is modelled by its HTML string.       *)

SpanOpen(dirAttribute) ==
  IF dirAttribute = undefined THEN "<span>"
  ELSE IF dirAttribute = "rtl" THEN "<span dir=\"rtl\">"
  ELSE "<span dir=\"ltr\">"
SpanClose == "</span>"

SafeHtmlCreateSpan(dirAttribute, html) ==
  <<SpanOpen(dirAttribute)>> \o html \o <<SpanClose>>

SafeHtmlUnwrap(html) == html

SafeHtmlConcat(html, str) == html \o str

-----------------------------------------------------------------------------
(* goog.i18n.BidiFormatter.  The formatter's two fields; the text (or the *)
(* HTML value) the client formats with it; and the call made last: the     *)
(* method called (op), its other arguments (args) and what it returned     *)
(* (result).                                                               *)

VARIABLES contextDir_, alwaysSpan_, text, op, args, result

\* goog.editor.PluginImpl (described with its methods below), and the calls
\* that the call made last has made on other objects.
VARIABLES enabled_, fieldObject, GECKO, silentCommands, logged, calls

\* goog.testing.DeferredTestCase (described with its methods below).
VARIABLES chain, fired, stepName, testState

\* goog.ui.ColorPalette (described with its methods below).
VARIABLES colors_, labels_, normalizedColors_

\* The element goog.ui.CustomButtonRenderer decorates (described below).
VARIABLES element

bidiVars == <<contextDir_, alwaysSpan_, text>>
pluginVars == <<enabled_, fieldObject, GECKO, silentCommands, logged>>
deferredVars == <<chain, fired, stepName, testState>>
paletteVars == <<colors_, labels_, normalizedColors_>>
rendererVars == <<element>>

vars ==
  <<bidiVars, pluginVars, deferredVars, paletteVars, rendererVars,
    op, args, result, calls>>

NoLog == "none"

\* A nullable array: null (or an omitted array argument), or the array of
\* the given items.
NoArray == [array |-> FALSE, items |-> <<>>]
Array(items) == [array |-> TRUE, items |-> items]

\* An object of one class while an object of another is the one in use.
BidiIdle == contextDir_ = null /\ alwaysSpan_ = FALSE /\ text = <<>>
PluginIdle ==
  /\ enabled_ = FALSE /\ fieldObject = null /\ GECKO = FALSE
  /\ silentCommands = {} /\ logged = NoLog
DeferredIdle ==
  chain = <<>> /\ fired = FALSE /\ stepName = "" /\ testState = "running"

PaletteIdle ==
  colors_ = <<>> /\ labels_ = NoArray /\ normalizedColors_ = NoArray
RendererIdle == element = <<>>

\* What the methods of one class leave alone.
OthersOfBidi ==
  <<pluginVars, deferredVars, paletteVars, rendererVars, calls>>
OthersOfPlugin == <<bidiVars, deferredVars, paletteVars, rendererVars>>
OthersOfDeferred == <<bidiVars, pluginVars, paletteVars, rendererVars>>
OthersOfPalette == <<bidiVars, pluginVars, deferredVars, rendererVars>>
OthersOfRenderer == <<bidiVars, pluginVars, deferredVars, paletteVars>>

\* The default applied to every value: opt_dirReset || true.
DefaultTrue_Always(opt_dirReset) == TRUE

\* No default: an omitted opt_dirReset stays falsy.
DefaultTrue_NoDefault(opt_dirReset) == opt_dirReset = "true"

\* opt_dirReset || (opt_dirReset == undefined)
DefaultTrue(opt_dirReset) == opt_dirReset = "true" \/ opt_dirReset = undefined

\* areDirectionalitiesOpposite_ that takes any two different directions as
\* opposite.
areDirectionalitiesOpposite_Differ(dir1, dir2) == Number(dir1) # Number(dir2)

areDirectionalitiesOpposite_(dir1, dir2) == Number(dir1) * Number(dir2) < 0

\* dirResetIfNeeded_ without the two exit-directionality tests.
dirResetIfNeeded_NoExitTest(str, dir, opt_isHtml, opt_dirReset) ==
  IF opt_dirReset /\ areDirectionalitiesOpposite_(dir, contextDir_)
    THEN IF contextDir_ = LTR THEN <<LRM>> ELSE <<RLM>>
    ELSE <<>>

\* dirResetIfNeeded_ testing the context for "not RTL" where it tests for LTR.
dirResetIfNeeded_NotRtl(str, dir, opt_isHtml, opt_dirReset) ==
  IF opt_dirReset /\
     (areDirectionalitiesOpposite_(dir, contextDir_) \/
      (contextDir_ # RTL /\ endsWithRtl(str, opt_isHtml)) \/
      (contextDir_ = RTL /\ endsWithLtr(str, opt_isHtml)))
    THEN IF contextDir_ = LTR THEN <<LRM>> ELSE <<RLM>>
    ELSE <<>>

dirResetIfNeeded_(str, dir, opt_isHtml, opt_dirReset) ==
  IF opt_dirReset /\
     (areDirectionalitiesOpposite_(dir, contextDir_) \/
      (contextDir_ = LTR /\ endsWithRtl(str, opt_isHtml)) \/
      (contextDir_ = RTL /\ endsWithLtr(str, opt_isHtml)))
    THEN IF contextDir_ = LTR THEN <<LRM>> ELSE <<RLM>>
    ELSE <<>>

\* knownDirAttrValue that does not resolve NEUTRAL to the context.
knownDirAttrValue_Unresolved(dir) ==
  IF dir = RTL THEN "rtl" ELSE "ltr"

knownDirAttrValue(dir) ==
  LET resolvedDir == IF dir = NEUTRAL THEN contextDir_ ELSE dir
  IN  IF resolvedDir = RTL THEN "rtl" ELSE "ltr"

dirAttrValue(str, opt_isHtml) ==
  knownDirAttrValue(estimateDirection(str, opt_isHtml))

\* knownDirAttr that does not compare dir with the context.
knownDirAttr_NoContext(dir) ==
  IF dir = RTL THEN "dir=\"rtl\""
  ELSE IF dir = LTR THEN "dir=\"ltr\"" ELSE ""

knownDirAttr(dir) ==
  IF dir # contextDir_
    THEN IF dir = RTL THEN "dir=\"rtl\""
         ELSE IF dir = LTR THEN "dir=\"ltr\"" ELSE ""
    ELSE ""

dirAttr(str, opt_isHtml) == knownDirAttr(estimateDirection(str, opt_isHtml))

\* spanWrapWithKnownDir_ that ignores alwaysSpan_.
spanWrapWithKnownDir_NoAlwaysSpan(dir, html, opt_dirReset) ==
  LET dirReset == DefaultTrue(opt_dirReset)
      dirCondition == dir # NEUTRAL /\ dir # contextDir_
      dirAttribute == IF dir = RTL THEN "rtl" ELSE "ltr"
      wrapped == IF dirCondition
                   THEN SafeHtmlCreateSpan(dirAttribute, html)
                   ELSE html
      str == SafeHtmlUnwrap(html)
  IN  SafeHtmlConcat(wrapped, dirResetIfNeeded_(str, dir, TRUE, dirReset))

\* spanWrapWithKnownDir_ that takes the text for the mark as plain text, not
\* as markup.
spanWrapWithKnownDir_NotHtml(dir, html, opt_dirReset) ==
  LET dirReset == DefaultTrue(opt_dirReset)
      dirCondition == dir # NEUTRAL /\ dir # contextDir_
      dirAttribute == IF dirCondition
                        THEN IF dir = RTL THEN "rtl" ELSE "ltr"
                        ELSE undefined
      wrapped == IF alwaysSpan_ \/ dirCondition
                   THEN SafeHtmlCreateSpan(dirAttribute, html)
                   ELSE html
      str == SafeHtmlUnwrap(html)
  IN  SafeHtmlConcat(wrapped, dirResetIfNeeded_(str, dir, FALSE, dirReset))

spanWrapWithKnownDir_(dir, html, opt_dirReset) ==
  LET dirReset == DefaultTrue(opt_dirReset)
      dirCondition == dir # NEUTRAL /\ dir # contextDir_
      dirAttribute == IF dirCondition
                        THEN IF dir = RTL THEN "rtl" ELSE "ltr"
                        ELSE undefined
      wrapped == IF alwaysSpan_ \/ dirCondition
                   THEN SafeHtmlCreateSpan(dirAttribute, html)
                   ELSE html
      str == SafeHtmlUnwrap(html)
  IN  SafeHtmlConcat(wrapped, dirResetIfNeeded_(str, dir, TRUE, dirReset))

spanWrapSafeHtmlWithKnownDir(dir, html, opt_dirReset) ==
  LET d == IF dir = null
             THEN estimateDirection(SafeHtmlUnwrap(html), TRUE)
             ELSE dir
  IN  spanWrapWithKnownDir_(d, html, opt_dirReset)

spanWrapSafeHtml(html, opt_dirReset) ==
  spanWrapSafeHtmlWithKnownDir(null, html, opt_dirReset)

\* unicodeWrapWithKnownDir_ with the two embedding characters exchanged.
unicodeWrapWithKnownDir_Swapped(dir, str, opt_isHtml, opt_dirReset) ==
  LET dirReset == DefaultTrue(opt_dirReset)
      wrapped == IF dir # NEUTRAL /\ dir # contextDir_
                   THEN <<IF dir = RTL THEN LRE ELSE RLE>> \o str \o <<PDF>>
                   ELSE str
  IN  wrapped \o dirResetIfNeeded_(str, dir, opt_isHtml, dirReset)

\* unicodeWrapWithKnownDir_ that does not test dir against NEUTRAL.
unicodeWrapWithKnownDir_NoNeutralTest(dir, str, opt_isHtml, opt_dirReset) ==
  LET dirReset == DefaultTrue(opt_dirReset)
      wrapped == IF dir # contextDir_
                   THEN <<IF dir = RTL THEN RLE ELSE LRE>> \o str \o <<PDF>>
                   ELSE str
  IN  wrapped \o dirResetIfNeeded_(str, dir, opt_isHtml, dirReset)

unicodeWrapWithKnownDir_(dir, str, opt_isHtml, opt_dirReset) ==
  LET dirReset == DefaultTrue(opt_dirReset)
      wrapped == IF dir # NEUTRAL /\ dir # contextDir_
                   THEN <<IF dir = RTL THEN RLE ELSE LRE>> \o str \o <<PDF>>
                   ELSE str
  IN  wrapped \o dirResetIfNeeded_(str, dir, opt_isHtml, dirReset)

\* unicodeWrapWithKnownDir testing !dir where it tests dir == null, so that
\* NEUTRAL (0) is estimated again.
unicodeWrapWithKnownDir_Falsy(dir, str, opt_isHtml, opt_dirReset) ==
  LET d == IF dir = null \/ dir = NEUTRAL
             THEN estimateDirection(str, opt_isHtml)
             ELSE dir
  IN  unicodeWrapWithKnownDir_(d, str, opt_isHtml, opt_dirReset)

unicodeWrapWithKnownDir(dir, str, opt_isHtml, opt_dirReset) ==
  LET d == IF dir = null THEN estimateDirection(str, opt_isHtml) ELSE dir
  IN  unicodeWrapWithKnownDir_(d, str, opt_isHtml, opt_dirReset)

unicodeWrap(str, opt_isHtml, opt_dirReset) ==
  unicodeWrapWithKnownDir(null, str, opt_isHtml, opt_dirReset)

markAfterKnownDir(dir, str, opt_isHtml) ==
  LET d == IF dir = null THEN estimateDirection(str, opt_isHtml) ELSE dir
  IN  dirResetIfNeeded_(str, d, opt_isHtml, TRUE)

markAfter(str, opt_isHtml) == markAfterKnownDir(null, str, opt_isHtml)

\* mark with the two cases exchanged.
mark_Swapped ==
  CASE contextDir_ = LTR -> <<RLM>>
    [] contextDir_ = RTL -> <<LRM>>
    [] OTHER -> <<>>

mark ==
  CASE contextDir_ = LTR -> <<LRM>>
    [] contextDir_ = RTL -> <<RLM>>
    [] OTHER -> <<>>

startEdge == IF contextDir_ = RTL THEN RIGHT ELSE LEFT

\* endEdge testing the context for LTR where it tests for RTL.
endEdge_TestsLtr == IF contextDir_ = LTR THEN RIGHT ELSE LEFT

endEdge == IF contextDir_ = RTL THEN LEFT ELSE RIGHT

-----------------------------------------------------------------------------
(* The calls a client can make.                                            *)

\* new goog.i18n.BidiFormatter(contextDir, opt_alwaysSpan), and the text the
\* client is about to format.
Init ==
  \E contextDir \in DirInput, opt_alwaysSpan \in OptBool :
    /\ contextDir_ = toDir(contextDir, TRUE)
    /\ alwaysSpan_ = (opt_alwaysSpan = "true")
    /\ text \in Text
    /\ PluginIdle /\ DeferredIdle /\ PaletteIdle /\ RendererIdle
    /\ calls = <<>>
    /\ op = "BidiFormatter"
    /\ args = [contextDir |-> contextDir, opt_alwaysSpan |-> opt_alwaysSpan]
    /\ result = undefined

\* A call that only reads the formatter and returns value.
Returns(name, arguments, value) ==
  /\ op' = name
  /\ args' = arguments
  /\ result' = value
  /\ UNCHANGED <<contextDir_, alwaysSpan_, text, OthersOfBidi>>

\* setContextDir that lets NEUTRAL through.
setContextDir_Neutral(contextDir) ==
  /\ contextDir_' = toDir(contextDir, FALSE)
  /\ op' = "setContextDir"
  /\ args' = [contextDir |-> contextDir]
  /\ result' = undefined
  /\ UNCHANGED <<alwaysSpan_, text, OthersOfBidi>>

\* setContextDir that also resets alwaysSpan_, as the constructor does when
\* opt_alwaysSpan is left out.
setContextDir_ResetsSpan(contextDir) ==
  /\ contextDir_' = toDir(contextDir, TRUE)
  /\ alwaysSpan_' = FALSE
  /\ op' = "setContextDir"
  /\ args' = [contextDir |-> contextDir]
  /\ result' = undefined
  /\ UNCHANGED <<text, OthersOfBidi>>

setContextDir(contextDir) ==
  /\ contextDir_' = toDir(contextDir, TRUE)
  /\ op' = "setContextDir"
  /\ args' = [contextDir |-> contextDir]
  /\ result' = undefined
  /\ UNCHANGED <<alwaysSpan_, text, OthersOfBidi>>

setAlwaysSpan(alwaysSpan) ==
  /\ alwaysSpan_' = alwaysSpan
  /\ op' = "setAlwaysSpan"
  /\ args' = [alwaysSpan |-> alwaysSpan]
  /\ result' = undefined
  /\ UNCHANGED <<contextDir_, text, OthersOfBidi>>

getContextDir == Returns("getContextDir", <<>>, contextDir_)

getAlwaysSpan == Returns("getAlwaysSpan", <<>>, alwaysSpan_)

CallEstimateDirection ==
  \E isHtml \in BOOLEAN :
    Returns("estimateDirection", [isHtml |-> isHtml],
            estimateDirection(text, isHtml))

CallDirAttrValue ==
  \E isHtml \in BOOLEAN :
    Returns("dirAttrValue", [isHtml |-> isHtml], dirAttrValue(text, isHtml))

CallKnownDirAttrValue ==
  \E dir \in Dir :
    Returns("knownDirAttrValue", [dir |-> dir], knownDirAttrValue(dir))

CallDirAttr ==
  \E isHtml \in BOOLEAN :
    Returns("dirAttr", [isHtml |-> isHtml], dirAttr(text, isHtml))

CallKnownDirAttr ==
  \E dir \in Dir :
    Returns("knownDirAttr", [dir |-> dir], knownDirAttr(dir))

CallSpanWrapSafeHtml ==
  \E dirReset \in OptBool :
    Returns("spanWrapSafeHtml", [dirReset |-> dirReset],
            spanWrapSafeHtml(text, dirReset))

CallSpanWrapSafeHtmlWithKnownDir ==
  \E dir \in NullableDir, dirReset \in OptBool :
    Returns("spanWrapSafeHtmlWithKnownDir",
            [dir |-> dir, dirReset |-> dirReset],
            spanWrapSafeHtmlWithKnownDir(dir, text, dirReset))

CallUnicodeWrap ==
  \E isHtml \in BOOLEAN, dirReset \in OptBool :
    Returns("unicodeWrap", [isHtml |-> isHtml, dirReset |-> dirReset],
            unicodeWrap(text, isHtml, dirReset))

CallUnicodeWrapWithKnownDir ==
  \E dir \in NullableDir, isHtml \in BOOLEAN, dirReset \in OptBool :
    Returns("unicodeWrapWithKnownDir",
            [dir |-> dir, isHtml |-> isHtml, dirReset |-> dirReset],
            unicodeWrapWithKnownDir(dir, text, isHtml, dirReset))

CallMarkAfter ==
  \E isHtml \in BOOLEAN :
    Returns("markAfter", [isHtml |-> isHtml], markAfter(text, isHtml))

CallMarkAfterKnownDir ==
  \E dir \in NullableDir, isHtml \in BOOLEAN :
    Returns("markAfterKnownDir", [dir |-> dir, isHtml |-> isHtml],
            markAfterKnownDir(dir, text, isHtml))

CallMark == Returns("mark", <<>>, mark)

\* The private test, applied to two directions on its own.
CallAreDirectionalitiesOpposite ==
  \E dir1 \in NullableDir, dir2 \in NullableDir :
    Returns("areDirectionalitiesOpposite_", [dir1 |-> dir1, dir2 |-> dir2],
            areDirectionalitiesOpposite_(dir1, dir2))

CallStartEdge == Returns("startEdge", <<>>, startEdge)

CallEndEdge == Returns("endEdge", <<>>, endEdge)

Next ==
  \/ \E contextDir \in DirInput : setContextDir(contextDir)
  \/ \E alwaysSpan \in BOOLEAN : setAlwaysSpan(alwaysSpan)
  \/ getContextDir
  \/ getAlwaysSpan
  \/ CallEstimateDirection
  \/ CallDirAttrValue
  \/ CallKnownDirAttrValue
  \/ CallDirAttr
  \/ CallKnownDirAttr
  \/ CallSpanWrapSafeHtml
  \/ CallSpanWrapSafeHtmlWithKnownDir
  \/ CallUnicodeWrap
  \/ CallUnicodeWrapWithKnownDir
  \/ CallMarkAfter
  \/ CallMarkAfterKnownDir
  \/ CallMark
  \/ CallAreDirectionalitiesOpposite
  \/ CallStartEdge
  \/ CallEndEdge

-----------------------------------------------------------------------------
(* goog.editor.PluginImpl.  The plugin's fields enabled_ and fieldObject;  *)
(* what its environment and its subclass fix: goog.userAgent.GECKO and the *)
(* commands for which isSilentCommand is overridden to return true; and,   *)
(* of the call made last (op, args, result), the methods it called on the  *)
(* field and on the plugin (calls) and the error it logged (logged).       *)
(* execCommandInternal is the subclass's: it returns a value or throws,    *)
(* and is taken not to register or enable fields itself.  The field's      *)
(* methods (goog.editor.Field) are taken to return normally.               *)

\* Longest list of additional arguments of execCommand.
MaxVarArgs == 1

Fields == {"field1", "field2"}
Commands == {"+bold", "+dialog"}
VarArgs == UNION {[1..n -> {"arg"}] : n \in 0..MaxVarArgs}
\* What execCommandInternal does: return a value, or throw.
InternalOutcomes ==
  [kind : {"return"}, value : {undefined, "done"}] \cup
  [kind : {"throw"}, error : {"Error"}]

\* A method called on the field, or on the plugin itself.
FieldCall(method, arguments) ==
  [on |-> fieldObject, method |-> method, arguments |-> arguments]
PluginCall(method, arguments) ==
  [on |-> "this", method |-> method, arguments |-> arguments]

isSilentCommand(command) == command \in silentCommands

\* isEnabled that does not look at the field it is given.
isEnabled_AnyField(fieldObj) == enabled_

isEnabled(fieldObj) == IF fieldObject = fieldObj THEN enabled_ ELSE FALSE

\* new goog.editor.PluginImpl(): enabled_ is activeOnUneditableFields(), which
\* is false unless the subclass overrides it.
PluginInit ==
  /\ enabled_ \in BOOLEAN
  /\ fieldObject = null
  /\ GECKO \in BOOLEAN
  /\ silentCommands \in SUBSET Commands
  /\ calls = <<>>
  /\ logged = NoLog
  /\ BidiIdle /\ DeferredIdle /\ PaletteIdle /\ RendererIdle
  /\ op = "PluginImpl"
  /\ args = <<>>
  /\ result = undefined

\* What a call leaves of the call before it.
PluginCalled(name, arguments, value) ==
  /\ op' = name
  /\ args' = arguments
  /\ result' = value
  /\ UNCHANGED <<GECKO, silentCommands, OthersOfPlugin>>

getFieldObject ==
  /\ PluginCalled("getFieldObject", <<>>, fieldObject)
  /\ calls' = <<>>
  /\ logged' = NoLog
  /\ UNCHANGED <<enabled_, fieldObject>>

registerFieldObject(fieldObj) ==
  /\ fieldObject' = fieldObj
  /\ PluginCalled("registerFieldObject", [fieldObject |-> fieldObj], undefined)
  /\ calls' = <<>>
  /\ logged' = NoLog
  /\ UNCHANGED enabled_

\* enable that does not look at the field it is given.
enable_AnyField(fieldObj) ==
  /\ enabled_' = TRUE
  /\ logged' = NoLog
  /\ PluginCalled("enable", [fieldObject |-> fieldObj], undefined)
  /\ calls' = <<>>
  /\ UNCHANGED fieldObject

enable(fieldObj) ==
  /\ IF fieldObject = fieldObj
       THEN enabled_' = TRUE /\ logged' = NoLog
       ELSE /\ logged' = "Trying to enable an unregistered field with this plugin."
            /\ UNCHANGED enabled_
  /\ PluginCalled("enable", [fieldObject |-> fieldObj], undefined)
  /\ calls' = <<>>
  /\ UNCHANGED fieldObject

disable(fieldObj) ==
  /\ IF fieldObject = fieldObj
       THEN enabled_' = FALSE /\ logged' = NoLog
       ELSE /\ logged' = "Trying to disable an unregistered field with this plugin."
            /\ UNCHANGED enabled_
  /\ PluginCalled("disable", [fieldObject |-> fieldObj], undefined)
  /\ calls' = <<>>
  /\ UNCHANGED fieldObject

\* The body of unregisterFieldObject: disable(getFieldObject()), which finds
\* the registered field and logs nothing, then setFieldObject(null).
Unregister ==
  IF fieldObject # null
    THEN enabled_' = FALSE /\ logged' = NoLog /\ fieldObject' = null
    ELSE logged' = NoLog /\ UNCHANGED <<enabled_, fieldObject>>

\* unregisterFieldObject that forgets the field and leaves the plugin enabled.
unregisterFieldObject_NoDisable(fieldObj) ==
  /\ fieldObject' = null /\ logged' = NoLog /\ UNCHANGED enabled_
  /\ PluginCalled("unregisterFieldObject", [fieldObj |-> fieldObj], undefined)
  /\ calls' = <<>>

unregisterFieldObject(fieldObj) ==
  /\ Unregister
  /\ PluginCalled("unregisterFieldObject", [fieldObj |-> fieldObj], undefined)
  /\ calls' = <<>>

CallIsEnabled(fieldObj) ==
  /\ PluginCalled("isEnabled", [fieldObject |-> fieldObj], isEnabled(fieldObj))
  /\ calls' = <<>>
  /\ logged' = NoLog
  /\ UNCHANGED <<enabled_, fieldObject>>

disposeInternal ==
  /\ Unregister
  /\ PluginCalled("disposeInternal", <<>>, undefined)
  /\ calls' = <<>>

\* The calls execCommand makes before the try block.
ExecBefore_NoBeforeChange(silent) ==
  IF silent \/ GECKO
    THEN <<FieldCall("stopChangeEvents", <<"true", "true">>)>>
    ELSE <<>>

ExecBefore(silent) ==
  IF silent
    THEN <<FieldCall("stopChangeEvents", <<"true", "true">>)>>
    ELSE (IF GECKO
            THEN <<FieldCall("stopChangeEvents", <<"true", "true">>)>>
            ELSE <<>>)
         \o <<FieldCall("dispatchBeforeChange", <<>>)>>

\* The finally block taking every command for a silent one's opposite.
ExecFinally_IgnoresSilent(silent) ==
  <<FieldCall("dispatchChange", <<>>),
    FieldCall("dispatchSelectionChangeEvent", <<>>)>>

\* The calls execCommand makes in its finally block.
ExecFinally(silent) ==
  IF silent
    THEN <<FieldCall("startChangeEvents", <<"false", "false">>)>>
    ELSE <<FieldCall("dispatchChange", <<>>),
           FieldCall("dispatchSelectionChangeEvent", <<>>)>>

\* execCommand without try ... finally: nothing is called once
\* execCommandInternal has thrown.
ExecCalls_NoFinally(silent, arguments, internal) ==
  ExecBefore(silent)
  \o <<PluginCall("execCommandInternal", arguments)>>
  \o (IF internal.kind = "throw" THEN <<>> ELSE ExecFinally(silent))

\* All the calls of one execCommand, in order; the finally block runs whether
\* execCommandInternal returns or throws.
ExecCalls(silent, arguments, internal) ==
  ExecBefore(silent)
  \o <<PluginCall("execCommandInternal", arguments)>>
  \o ExecFinally(silent)

\* With no field registered the first this.getFieldObject().<method> is a
\* TypeError, thrown before the try block.
execCommand(command, var_args, internal) ==
  /\ IF fieldObject = null
       THEN /\ calls' = <<>>
            /\ result' = [kind |-> "throw", error |-> "TypeError"]
       ELSE /\ calls' = ExecCalls(isSilentCommand(command),
                                  <<command>> \o var_args, internal)
            /\ result' = internal
  /\ op' = "execCommand"
  /\ args' = [command |-> command, var_args |-> var_args,
              internal |-> internal]
  /\ logged' = NoLog
  /\ UNCHANGED <<enabled_, fieldObject, GECKO, silentCommands, OthersOfPlugin>>

PluginNext ==
  \/ getFieldObject
  \/ \E fieldObj \in Fields : registerFieldObject(fieldObj)
  \/ \E fieldObj \in Fields \cup {null} : unregisterFieldObject(fieldObj)
  \/ \E fieldObj \in Fields \cup {null} : enable(fieldObj)
  \/ \E fieldObj \in Fields \cup {null} : disable(fieldObj)
  \/ \E fieldObj \in Fields \cup {null} : CallIsEnabled(fieldObj)
  \/ disposeInternal
  \/ \E command \in Commands, var_args \in VarArgs,
        internal \in InternalOutcomes :
       execCommand(command, var_args, internal)

-----------------------------------------------------------------------------
(* goog.testing.DeferredTestCase.  A test step creates a Deferred, adds    *)
(* callbacks to it and hands it to waitForDeferred.  chain is the          *)
(* Deferred's sequence of (callback, errback) pairs not run yet and fired  *)
(* tells whether it has been fired; stepName is what getCurrentStepName    *)
(* returns and testState the state of the test case ("running",            *)
(* "waiting" after waitForAsync, "failed" after doAsyncError).  calls is   *)
(* the sequence of the calls the call made last has made, in order: those  *)
(* on the Deferred, those on the test case, and the test's own callbacks.  *)
(* goog.async.Deferred and goog.testing.AsyncTestCase are used through     *)
(* their interface: a Deferred fired with callback(v) runs its sequence in *)
(* order, a pair's callback while no error is pending and its errback      *)
(* while one is, skipping a pair that has no function for the case.        *)

MaxCallbacks == 2

StepNames == {"testDeferredCallbacks", "setUp"}
AsyncMsgs == {"Waiting for 1st callback", "Waiting for 2nd callback"}
WaitMsgs == {"", null, "Waiting for callbacks"}
DeferredObject == "deferred"

\* A function value: the function and the arguments bound to it.
Fn(name, bound) == [fn |-> name, bound |-> bound]
NoFn == Fn("null", <<>>)

\* The callbacks of a test: one that returns and one that throws (a failed
\* assertion).
TestCallbacks == {Fn("passes", <<>>), Fn("throws", <<>>)}

\* The argument lists of waitForDeferred: (), (deferred), (msg, deferred)
\* and (msg, deferred, extra).
ArgumentLists ==
  {<<>>, <<DeferredObject>>} \cup
  {<<msg, DeferredObject>> : msg \in WaitMsgs} \cup
  {<<msg, DeferredObject, "extra">> : msg \in WaitMsgs}

DeferredCall(d, method, arguments) ==
  [on |-> d, method |-> method, arguments |-> arguments]
TestCaseCall(method, arguments) ==
  [on |-> "this", method |-> method, arguments |-> arguments]
CallbackCall(f) == [on |-> "callback", method |-> f.fn, arguments |-> f.bound]

\* JavaScript's !v on a message.
Falsy(v) == v \in {"", null, undefined}

onError(err) == <<TestCaseCall("doAsyncError", <<err>>)>>

onSuccess == <<TestCaseCall("continueTesting", <<>>)>>

\* The calls that calling the function f with the Deferred's result makes.
Invoke(f, res) ==
  CASE f.fn = "onSuccess" -> onSuccess
    [] f.fn = "onError" -> onError(res)
    [] f.fn = "waitForAsync" -> <<TestCaseCall("waitForAsync", f.bound)>>
    [] OTHER -> <<CallbackCall(f)>>

\* f throws: a failing callback of the test, and onError, whose doAsyncError
\* always throws.
Throws(f) == f.fn \in {"throws", "onError"}

\* The calls made while the Deferred runs its sequence.
RECURSIVE fire_(_, _, _)
fire_(sequence, hadError, res) ==
  IF sequence = <<>> THEN <<>>
  ELSE LET f == IF hadError THEN Head(sequence).errback
                            ELSE Head(sequence).callback
       IN IF f = NoFn
            THEN fire_(Tail(sequence), hadError, res)
            ELSE Invoke(f, res) \o
                 fire_(Tail(sequence), Throws(f),
                       IF Throws(f) THEN "Error" ELSE res)

\* The state of the test case after the calls made on it.
RECURSIVE StateAfter(_, _)
StateAfter(made, state) ==
  IF made = <<>> THEN state
  ELSE StateAfter(Tail(made),
         CASE Head(made).method = "waitForAsync" -> "waiting"
           [] Head(made).method = "continueTesting" -> "running"
           [] Head(made).method = "doAsyncError" -> "failed"
           [] OTHER -> state)

DeferredInit ==
  /\ chain = <<>>
  /\ fired = FALSE
  /\ stepName \in StepNames
  /\ testState = "running"
  /\ calls = <<>>
  /\ BidiIdle /\ PluginIdle /\ PaletteIdle /\ RendererIdle
  /\ op = "DeferredTestCase"
  /\ args = <<>>
  /\ result = undefined

DeferredCalled(name, arguments, value) ==
  /\ op' = name
  /\ args' = arguments
  /\ result' = value
  /\ UNCHANGED <<stepName, OthersOfDeferred>>

\* deferred.addCallbacks(cb, eb, scope) on a Deferred not fired yet.
addCallbacks(cb, eb) == Append(chain, [callback |-> cb, errback |-> eb])

\* The test adds a callback of its own to the Deferred.
addCallback(f) ==
  /\ ~fired
  /\ Len(chain) < MaxCallbacks
  /\ chain' = addCallbacks(f, NoFn)
  /\ calls' = <<>>
  /\ UNCHANGED <<fired, testState>>
  /\ DeferredCalled("addCallback", [f |-> f], undefined)

addWaitForAsync(msg) ==
  /\ ~fired
  /\ Len(chain) < MaxCallbacks
  /\ chain' = addCallbacks(Fn("waitForAsync", <<msg>>), NoFn)
  /\ calls' = <<DeferredCall(DeferredObject, "addCallback",
                            <<"waitForAsync", msg>>)>>
  /\ UNCHANGED <<fired, testState>>
  /\ DeferredCalled("addWaitForAsync", [msg |-> msg, d |-> DeferredObject],
                    undefined)

\* waitForDeferred with the firing of the Deferred before waitForAsync.
WaitForDeferredCalls_FiresFirst(deferred, waitMsg, sequence) ==
  <<DeferredCall(deferred, "addCallbacks", <<"onSuccess", "onError", "this">>),
    DeferredCall(deferred, "callback", <<"true">>)>> \o
  fire_(sequence, FALSE, "true") \o
  <<TestCaseCall("waitForAsync", <<waitMsg>>)>>

\* The calls of waitForDeferred after its switch, on a Deferred whose
\* sequence, with the pair added here, is the given one.
WaitForDeferredCalls(deferred, waitMsg, sequence) ==
  <<DeferredCall(deferred, "addCallbacks", <<"onSuccess", "onError", "this">>),
    TestCaseCall("waitForAsync", <<waitMsg>>),
    DeferredCall(deferred, "callback", <<"true">>)>> \o
  fire_(sequence, FALSE, "true")

\* The switch without its default case: any other argument count is taken as
\* one argument.
ArgumentsSwitch_NoDefault(arguments) ==
  CASE Len(arguments) = 2 ->
         [thrown |-> "", deferred |-> arguments[2], waitMsg |-> arguments[1]]
    [] Len(arguments) = 0 ->
         [thrown |-> "", deferred |-> DeferredObject, waitMsg |-> null]
    [] OTHER ->
         [thrown |-> "", deferred |-> arguments[1], waitMsg |-> null]

\* The switch on arguments.length: the deferred and the wait message it
\* assigns, or the message of the Error it throws.
ArgumentsSwitch(arguments) ==
  CASE Len(arguments) = 1 ->
         [thrown |-> "", deferred |-> arguments[1], waitMsg |-> null]
    [] Len(arguments) = 2 ->
         [thrown |-> "", deferred |-> arguments[2], waitMsg |-> arguments[1]]
    [] OTHER ->
         [thrown |-> "Invalid number of arguments",
          deferred |-> undefined, waitMsg |-> undefined]

waitForDeferred(arguments) ==
  /\ ~fired
  /\ LET switch == ArgumentsSwitch(arguments)
     IN IF switch.thrown # ""
          THEN /\ calls' = <<>>
               /\ result' = [kind |-> "throw", error |-> switch.thrown]
               /\ UNCHANGED <<chain, fired, testState>>
          ELSE LET msg == IF Falsy(switch.waitMsg)
                            THEN "Waiting for deferred in " \o stepName
                            ELSE switch.waitMsg
                   made == WaitForDeferredCalls(switch.deferred, msg,
                             addCallbacks(Fn("onSuccess", <<>>),
                                          Fn("onError", <<>>)))
               IN /\ calls' = made
                  /\ chain' = <<>>
                  /\ fired' = TRUE
                  /\ testState' = StateAfter(made, testState)
                  /\ result' = [kind |-> "return", value |-> undefined]
  /\ op' = "waitForDeferred"
  /\ args' = arguments
  /\ UNCHANGED <<stepName, OthersOfDeferred>>

DeferredNext ==
  \/ \E f \in TestCallbacks : addCallback(f)
  \/ \E msg \in AsyncMsgs : addWaitForAsync(msg)
  \/ \E arguments \in ArgumentLists : waitForDeferred(arguments)

-----------------------------------------------------------------------------
(* goog.ui.ColorPalette.  The palette's fields colors_, labels_ and        *)
(* normalizedColors_ (the last two nullable arrays); calls is what the     *)
(* call made last has called on the palette itself (goog.ui.Palette's      *)
(* setContent and setSelectedIndex).  A color is the string it is written  *)
(* as; goog.color is used through its interface: parse(str).hex is the     *)
(* color as '#rrggbb' in lower case, parse throws on a string that is no   *)
(* color, and hexToRgb gives the three components of a hex color.  A       *)
(* swatch is taken by its style and its title.  JavaScript indexes arrays  *)
(* from 0: the indexes below are JavaScript's.                             *)

MaxColors == 2
MaxLabels == 2

\* The colors of a palette: red as short hex and by name, blue as short hex,
\* and a string that goog.color does not parse.
PaletteColors == {"#f00", "red", "#00f", "bogus"}
\* The arguments of setSelectedColor.
SelectColors ==
  {null, "", "bogus", "#FF0000", "rgb(255, 0, 0)", "red", "#f00", "blue"}
Labels == {"Red", ""}

ColorLists == UNION {[1..n -> PaletteColors] : n \in 0..MaxColors}
LabelLists == UNION {[1..n -> Labels] : n \in 0..MaxLabels}
OptArrays(lists) == {NoArray} \cup {Array(items) : items \in lists}

\* goog.color.parse(str): the hex of the color, or thrown.
ColorParse(str) ==
  CASE str \in {"#f00", "#FF0000", "red", "rgb(255, 0, 0)"} ->
         [thrown |-> FALSE, hex |-> "#ff0000"]
    [] str \in {"#00f", "blue"} -> [thrown |-> FALSE, hex |-> "#0000ff"]
    [] OTHER -> [thrown |-> TRUE, hex |-> ""]

\* color.charAt(0) == '#'
StartsWithHash(color) == color \in {"#f00", "#00f", "#FF0000"}

\* goog.color.hexToRgb(color).join(', ')
HexToRgbJoined(color) ==
  CASE color \in {"#f00", "#FF0000"} -> "255, 0, 0"
    [] color = "#00f" -> "0, 0, 255"

\* JavaScript's truth value of a nullable string.
Truthy(str) == str \notin {"", null, undefined}

parseColor_(color) ==
  IF Truthy(color) /\ ~ColorParse(color).thrown
    THEN ColorParse(color).hex
    ELSE null

\* Array.prototype.indexOf
indexOf(items, x) ==
  LET found == {i \in 1..Len(items) : items[i] = x}
  IN IF found = {} THEN -1
     ELSE (CHOOSE i \in found : \A j \in found : i <= j) - 1

PaletteCall(method, arguments) ==
  [on |-> "this", method |-> method, arguments |-> arguments]

\* createColorNodes that gives every swatch the color as its title.
createColorNodes_IgnoresLabels(colors, labels) ==
  [index \in 1..Len(colors) |->
     [style |-> "background-color:" \o colors[index],
      title |-> IF StartsWithHash(colors[index])
                  THEN "RGB (" \o HexToRgbJoined(colors[index]) \o ")"
                  ELSE colors[index]]]

\* createColorNodes, of a palette with these colors_ and labels_.
createColorNodes(colors, labels) ==
  [index \in 1..Len(colors) |->
     [style |-> "background-color:" \o colors[index],
      title |->
        IF /\ labels.array
           /\ index <= Len(labels.items)
           /\ Truthy(labels.items[index])
          THEN labels.items[index]
          ELSE IF StartsWithHash(colors[index])
                 THEN "RGB (" \o HexToRgbJoined(colors[index]) \o ")"
                 ELSE colors[index]]]

PaletteInit ==
  \E opt_colors \in OptArrays(ColorLists) :
    /\ colors_ = opt_colors.items
    /\ labels_ = NoArray
    /\ normalizedColors_ = NoArray
    /\ calls = <<PaletteCall("setContent",
                             <<createColorNodes(opt_colors.items, NoArray)>>)>>
    /\ BidiIdle /\ PluginIdle /\ DeferredIdle /\ RendererIdle
    /\ op = "ColorPalette"
    /\ args = [opt_colors |-> opt_colors]
    /\ result = undefined

PaletteCalled(name, arguments, value) ==
  /\ op' = name
  /\ args' = arguments
  /\ result' = value
  /\ UNCHANGED OthersOfPalette

getColors ==
  /\ calls' = <<>>
  /\ UNCHANGED paletteVars
  /\ PaletteCalled("getColors", <<>>, colors_)

getLabels ==
  /\ calls' = <<>>
  /\ UNCHANGED paletteVars
  /\ PaletteCalled("getLabels", <<>>, labels_)

\* setColors that keeps the normalized colors of the colors it replaces.
setColors_KeepsNormalized(colors, opt_labels) ==
  LET labels == IF opt_labels.array THEN opt_labels ELSE NoArray
  IN /\ colors_' = colors
     /\ labels_' = labels
     /\ UNCHANGED normalizedColors_
     /\ calls' = <<PaletteCall("setContent",
                               <<createColorNodes(colors, labels)>>)>>
     /\ PaletteCalled("setColors",
                      [colors |-> colors, opt_labels |-> opt_labels],
                      undefined)

setColors(colors, opt_labels) ==
  LET labels == IF opt_labels.array THEN opt_labels ELSE NoArray
  IN /\ colors_' = colors
     /\ labels_' = labels
     /\ normalizedColors_' = NoArray
     /\ calls' = <<PaletteCall("setContent",
                               <<createColorNodes(colors, labels)>>)>>
     /\ PaletteCalled("setColors",
                      [colors |-> colors, opt_labels |-> opt_labels],
                      undefined)

setSelectedColor(color) ==
  LET hexColor == parseColor_(color)
      normalized ==
        IF ~normalizedColors_.array
          THEN Array([i \in 1..Len(colors_) |-> parseColor_(colors_[i])])
          ELSE normalizedColors_
  IN /\ normalizedColors_' = normalized
     /\ calls' = <<PaletteCall("setSelectedIndex",
                     <<IF Truthy(hexColor)
                         THEN indexOf(normalized.items, hexColor)
                         ELSE -1>>)>>
     /\ UNCHANGED <<colors_, labels_>>
     /\ PaletteCalled("setSelectedColor", [color |-> color], undefined)

PaletteNext ==
  \/ getColors
  \/ getLabels
  \/ \E colors \in ColorLists, opt_labels \in OptArrays(LabelLists) :
       setColors(colors, opt_labels)
  \/ \E color \in SelectColors : setSelectedColor(color)

-----------------------------------------------------------------------------
(* goog.ui.CustomButtonRenderer.  element is the element handed to         *)
(* decorate, as a tree: a node has an identity (id), a nodeType, a         *)
(* nodeValue (the characters of a text node), CSS classes and child nodes. *)
(* The DOM is used through its interface: createDom(DIV, classes, content) *)
(* makes an element and moves the nodes of content into it, in order;      *)
(* appendChild adds a last child; getFirstElementChild is the first child  *)
(* that is an element.  ButtonRenderer's decorate, called last, is taken   *)
(* to leave the child nodes as they are.                                   *)

MaxChildren == 2

TEXT == "TEXT"
ELEMENT == "ELEMENT"
INLINE_BLOCK_CLASSNAME == "goog-inline-block"
CSS_CLASS == "goog-custom-button"
OuterBoxClass == "goog-custom-button-outer-box"
InnerBoxClass == "goog-custom-button-inner-box"

TextNode(id, nodeValue) ==
  [id |-> id, nodeType |-> TEXT, nodeValue |-> nodeValue,
   classes |-> {}, childNodes |-> <<>>]
ElementNode(id, classes, childNodes) ==
  [id |-> id, nodeType |-> ELEMENT, nodeValue |-> <<>>,
   classes |-> classes, childNodes |-> childNodes]

\* The child nodes an element to decorate may have: a text node of
\* whitespace, a text node with whitespace around a letter, a SPAN, a box
\* made earlier, and an outer box without an inner box.
ChildKinds == {"space", "padded", "span", "box", "outerOnly"}
ChildOfKind(kind, id) ==
  CASE kind = "space" -> TextNode(id, <<" ", " ">>)
    [] kind = "padded" -> TextNode(id, <<" ", "H", " ">>)
    [] kind = "span" -> ElementNode(id, {}, <<>>)
    [] kind = "box" ->
         ElementNode(id, {INLINE_BLOCK_CLASSNAME, OuterBoxClass},
           <<ElementNode("boxInner", {INLINE_BLOCK_CLASSNAME, InnerBoxClass},
               <<TextNode("boxText", <<"O", "K">>)>>)>>)
    [] kind = "outerOnly" -> ElementNode(id, {OuterBoxClass}, <<>>)
ChildIds == <<"n1", "n2", "n3", "n4">>
KindLists == UNION {[1..n -> ChildKinds] : n \in 0..MaxChildren}

\* goog.string.trim(str) == ''
IsBlank(str) == \A i \in DOMAIN str : str[i] = " "

RECURSIVE trimLeft(_)
trimLeft(str) ==
  IF str # <<>> /\ Head(str) = " " THEN trimLeft(Tail(str)) ELSE str

RECURSIVE trimRight(_)
trimRight(str) ==
  IF str # <<>> /\ str[Len(str)] = " "
    THEN trimRight(SubSeq(str, 1, Len(str) - 1))
    ELSE str

\* The loop of trimTextNodes_ from the first child on.
RECURSIVE TrimFromStart(_)
TrimFromStart(childNodes) ==
  IF childNodes = <<>> THEN <<>>
  ELSE LET node == Head(childNodes)
       IN IF node.nodeType = TEXT
            THEN IF IsBlank(node.nodeValue)
                   THEN TrimFromStart(Tail(childNodes))
                   ELSE <<[node EXCEPT !.nodeValue = trimLeft(@)]>> \o
                        Tail(childNodes)
            ELSE childNodes

\* The loop of trimTextNodes_ from the last child back.
RECURSIVE TrimFromEnd(_)
TrimFromEnd(childNodes) ==
  IF childNodes = <<>> THEN <<>>
  ELSE LET last == Len(childNodes)
           node == childNodes[last]
           before == SubSeq(childNodes, 1, last - 1)
       IN IF node.nodeType = TEXT
            THEN IF IsBlank(node.nodeValue)
                   THEN TrimFromEnd(before)
                   ELSE before \o <<[node EXCEPT !.nodeValue = trimRight(@)]>>
            ELSE childNodes

trimTextNodes_(node, fromStart) ==
  [node EXCEPT !.childNodes =
     IF fromStart THEN TrimFromStart(@) ELSE TrimFromEnd(@)]

\* dom.getFirstElementChild(node): the child, or no child (an empty
\* sequence, or the one child in a sequence).
getFirstElementChild(node) ==
  LET elements == {i \in DOMAIN node.childNodes :
                     node.childNodes[i].nodeType = ELEMENT}
  IN IF elements = {} THEN <<>>
     ELSE <<node.childNodes[CHOOSE i \in elements :
                              \A j \in elements : i <= j]>>

hasBoxStructure(node) ==
  LET outer == getFirstElementChild(node)
  IN IF outer # <<>> /\ OuterBoxClass \in outer[1].classes
       THEN LET inner == getFirstElementChild(outer[1])
            IN inner # <<>> /\ InnerBoxClass \in inner[1].classes
       ELSE FALSE

createButton(content) ==
  ElementNode("outer", {INLINE_BLOCK_CLASSNAME, OuterBoxClass},
    <<ElementNode("inner", {INLINE_BLOCK_CLASSNAME, InnerBoxClass},
                  content)>>)

RendererInit ==
  \E kinds \in KindLists :
    /\ element =
         ElementNode("root", {},
           [i \in DOMAIN kinds |-> ChildOfKind(kinds[i], ChildIds[i])])
    /\ calls = <<>>
    /\ BidiIdle /\ PluginIdle /\ DeferredIdle /\ PaletteIdle
    /\ op = "CustomButtonRenderer"
    /\ args = <<>>
    /\ result = undefined

RendererCalled(name, arguments, value) ==
  /\ op' = name
  /\ args' = arguments
  /\ result' = value
  /\ UNCHANGED OthersOfRenderer

\* decorate that appends a box whatever the element has.
decorate_AlwaysBoxes ==
  LET trimmed == trimTextNodes_(trimTextNodes_(element, TRUE), FALSE)
      boxed ==
        [trimmed EXCEPT !.childNodes = <<createButton(trimmed.childNodes)>>]
      decorated ==
        [boxed EXCEPT !.classes = @ \cup {INLINE_BLOCK_CLASSNAME, CSS_CLASS}]
  IN /\ element' = decorated
     /\ calls' = <<[on |-> "superClass_", method |-> "decorate",
                    arguments |-> <<"button", "element">>]>>
     /\ RendererCalled("decorate", <<"button", "element">>, decorated)

decorate ==
  LET trimmed == trimTextNodes_(trimTextNodes_(element, TRUE), FALSE)
      boxed ==
        IF ~hasBoxStructure(trimmed)
          THEN [trimmed EXCEPT
                  !.childNodes = <<createButton(trimmed.childNodes)>>]
          ELSE trimmed
      decorated ==
        [boxed EXCEPT !.classes = @ \cup {INLINE_BLOCK_CLASSNAME, CSS_CLASS}]
  IN /\ element' = decorated
     /\ calls' = <<[on |-> "superClass_", method |-> "decorate",
                    arguments |-> <<"button", "element">>]>>
     /\ RendererCalled("decorate", <<"button", "element">>, decorated)

CallHasBoxStructure ==
  /\ calls' = <<>>
  /\ UNCHANGED element
  /\ RendererCalled("hasBoxStructure", <<"button", "element">>,
                    hasBoxStructure(element))

\* element && element.firstChild && element.firstChild.firstChild: the
\* node, or a falsy value.
getContentElement ==
  /\ calls' = <<>>
  /\ UNCHANGED element
  /\ RendererCalled("getContentElement", <<"element">>,
       IF element.childNodes # <<>> /\ element.childNodes[1].childNodes # <<>>
         THEN <<element.childNodes[1].childNodes[1]>>
         ELSE <<>>)

RendererNext ==
  \/ decorate
  \/ CallHasBoxStructure
  \/ getContentElement

Spec == Init /\ [][Next]_vars

SpecPlugin == PluginInit /\ [][PluginNext]_vars

SpecDeferred == DeferredInit /\ [][DeferredNext]_vars

SpecPalette == PaletteInit /\ [][PaletteNext]_vars

SpecRenderer == RendererInit /\ [][RendererNext]_vars

-----------------------------------------------------------------------------
(* Properties.  The expected values below are stated on their own, from    *)
(* the directions and the text, without the formatter's operators.         *)

\* dir is LTR and the context RTL, or the other way round.
IsOpposite(dir, ctx) == (dir = LTR /\ ctx = RTL) \/ (dir = RTL /\ ctx = LTR)

\* The mark the reset rule asks for after the text at hand.
RuleMark(dir, isHtml, dirReset) ==
  IF dirReset /\ (IsOpposite(dir, contextDir_) \/
                  (contextDir_ = LTR /\ endsWithRtl(text, isHtml)) \/
                  (contextDir_ = RTL /\ endsWithLtr(text, isHtml)))
    THEN IF contextDir_ = LTR THEN <<"LRM">> ELSE <<"RLM">>
    ELSE <<>>

IsMark(c) == c = "LRM" \/ c = "RLM"

\* The mark a string ends with, and the string without it.
TrailingMark(s) == IF s # <<>> /\ IsMark(s[Len(s)]) THEN <<s[Len(s)]>> ELSE <<>>
WithoutTrailingMark(s) ==
  IF s # <<>> /\ IsMark(s[Len(s)]) THEN SubSeq(s, 1, Len(s) - 1) ELSE s

HasNoMark(s) == \A i \in DOMAIN s : ~IsMark(s[i])

\* The last call was made with the direction given and dirReset spelled out.
KnownDirCall(name) == op = name /\ args.dir # null
ExplicitReset == args.dirReset # undefined

\* C1: after markAfterKnownDir, unicodeWrapWithKnownDir and
\* spanWrapSafeHtmlWithKnownDir with a given dir, the result ends with a mark
\* iff dirReset is true and (dir is opposite to the context, or the context is
\* LTR and the text ends with RTL, or the context is RTL and the text ends
\* with LTR); the mark is the single character LRM in an LTR context and RLM
\* in an RTL context; otherwise nothing is appended.
C1_TrailingMarkResetRule ==
  /\ KnownDirCall("markAfterKnownDir") =>
       result = RuleMark(args.dir, args.isHtml, TRUE)
  /\ KnownDirCall("unicodeWrapWithKnownDir") /\ ExplicitReset =>
       TrailingMark(result) =
         RuleMark(args.dir, args.isHtml, args.dirReset = "true")
  /\ KnownDirCall("spanWrapSafeHtmlWithKnownDir") /\ ExplicitReset =>
       TrailingMark(result) = RuleMark(args.dir, TRUE, args.dirReset = "true")

\* A mark appended only because of the exit directionality: LTR text in an
\* LTR context that ends with an RTL character.
C1_Witness ==
  /\ KnownDirCall("unicodeWrapWithKnownDir")
  /\ args.dir = LTR /\ contextDir_ = LTR /\ args.dirReset = "true"
  /\ endsWithRtl(text, args.isHtml)
  /\ result = text \o <<"LRM">>

\* C2: unicodeWrapWithKnownDir with a given dir returns RLE text PDF when dir
\* is RTL and differs from the context, LRE text PDF when dir is LTR and
\* differs from the context, and the text as it is when dir is NEUTRAL or
\* equals the context, followed by the mark of the reset rule.
C2_UnicodeWrapResult ==
  KnownDirCall("unicodeWrapWithKnownDir") /\ ExplicitReset =>
    result =
      (IF args.dir = RTL /\ contextDir_ # RTL THEN <<"RLE">> \o text \o <<"PDF">>
       ELSE IF args.dir = LTR /\ contextDir_ # LTR
         THEN <<"LRE">> \o text \o <<"PDF">>
       ELSE text)
      \o RuleMark(args.dir, args.isHtml, args.dirReset = "true")

\* RTL text in an LTR context: RLE text PDF LRM.
C2_Witness ==
  /\ KnownDirCall("unicodeWrapWithKnownDir")
  /\ args.dir = RTL /\ contextDir_ = LTR /\ args.dirReset = "true"
  /\ text # <<>>
  /\ result = <<"RLE">> \o text \o <<"PDF", "LRM">>

\* C3: spanWrapSafeHtmlWithKnownDir with a given dir wraps the input in one
\* span iff alwaysSpan is set or dirCondition (dir is not NEUTRAL and differs
\* from the context) holds, and passes it through otherwise; the span has a
\* dir attribute iff dirCondition holds, "rtl" for RTL and "ltr" for LTR.
C3_SpanWrapDecision ==
  KnownDirCall("spanWrapSafeHtmlWithKnownDir") =>
    LET dirCondition == args.dir # NEUTRAL /\ args.dir # contextDir_
        body == WithoutTrailingMark(result)
    IN  /\ dirCondition /\ args.dir = RTL =>
             body = <<"<span dir=\"rtl\">">> \o text \o <<"</span>">>
        /\ dirCondition /\ args.dir = LTR =>
             body = <<"<span dir=\"ltr\">">> \o text \o <<"</span>">>
        /\ ~dirCondition /\ alwaysSpan_ =>
             body = <<"<span>">> \o text \o <<"</span>">>
        /\ ~dirCondition /\ ~alwaysSpan_ => body = text

\* alwaysSpan with a direction equal to the context: a span without dir.
C3_Witness ==
  /\ KnownDirCall("spanWrapSafeHtmlWithKnownDir")
  /\ alwaysSpan_ /\ args.dir = RTL /\ contextDir_ = RTL /\ text # <<>>
  /\ WithoutTrailingMark(result) = <<"<span>">> \o text \o <<"</span>">>

\* C4: when the context is UNKNOWN, mark, markAfter and markAfterKnownDir
\* return the empty string and the wrap operations append no LRM or RLM.
C4_NoMarkInUnknownContext ==
  contextDir_ = null =>
    /\ op \in {"mark", "markAfter", "markAfterKnownDir"} => result = <<>>
    /\ op \in {"unicodeWrap", "unicodeWrapWithKnownDir", "spanWrapSafeHtml",
               "spanWrapSafeHtmlWithKnownDir"} => HasNoMark(result)

\* The context was set to UNKNOWN and RTL text ending with RTL is wrapped
\* with dirReset: the embedding, and no mark.
C4_Witness ==
  /\ contextDir_ = null
  /\ KnownDirCall("unicodeWrapWithKnownDir")
  /\ args.dir = RTL /\ args.dirReset = "true" /\ endsWithRtl(text, args.isHtml)
  /\ result = <<"RLE">> \o text \o <<"PDF">>

\* C5: knownDirAttr(dir) is the empty string when dir equals the context or
\* is NEUTRAL, dir="rtl" when dir is RTL and the context is not RTL, and
\* dir="ltr" when dir is LTR and the context is not LTR.
C5_KnownDirAttr ==
  op = "knownDirAttr" =>
    /\ (args.dir = contextDir_ \/ args.dir = NEUTRAL) => result = ""
    /\ (args.dir = RTL /\ contextDir_ # RTL) => result = "dir=\"rtl\""
    /\ (args.dir = LTR /\ contextDir_ # LTR) => result = "dir=\"ltr\""
    /\ result \in {"", "dir=\"rtl\"", "dir=\"ltr\""}

\* LTR text in an UNKNOWN context gets the attribute.
C5_Witness ==
  /\ op = "knownDirAttr" /\ contextDir_ = null /\ args.dir = LTR
  /\ result = "dir=\"ltr\""

\* C6: knownDirAttrValue(dir) is "rtl" for RTL, "ltr" for LTR, and for NEUTRAL
\* "rtl" in an RTL context and "ltr" in an LTR or UNKNOWN context.
C6_KnownDirAttrValue ==
  op = "knownDirAttrValue" =>
    /\ args.dir = RTL => result = "rtl"
    /\ args.dir = LTR => result = "ltr"
    /\ args.dir = NEUTRAL /\ contextDir_ = RTL => result = "rtl"
    /\ args.dir = NEUTRAL /\ contextDir_ # RTL => result = "ltr"
    /\ result \in {"rtl", "ltr"}

C6_Witness ==
  /\ op = "knownDirAttrValue" /\ args.dir = NEUTRAL /\ contextDir_ = RTL
  /\ result = "rtl"

\* The context a context-directionality input stands for.
InputContext(input) ==
  CASE input.type = "number" /\ input.num > 0 -> LTR
    [] input.type = "number" /\ input.num < 0 -> RTL
    [] input.type = "boolean" /\ ~input.bool -> LTR
    [] input.type = "boolean" /\ input.bool -> RTL
    [] OTHER -> null

\* C7: the context is always LTR, RTL or UNKNOWN (null), never NEUTRAL, and
\* after construction or setContextDir it is given by the input of that call:
\* a positive number or false is LTR, a negative number or true is RTL, and
\* 0, NEUTRAL and null are UNKNOWN.
C7_ContextNormalized ==
  /\ contextDir_ \in {LTR, RTL, null}
  /\ contextDir_ # NEUTRAL
  /\ op \in {"BidiFormatter", "setContextDir"} =>
       contextDir_ = InputContext(args.contextDir)

\* setContextDir(NEUTRAL), that is setContextDir(0), left the context UNKNOWN.
C7_Witness ==
  /\ op = "setContextDir"
  /\ args.contextDir = [type |-> "number", num |-> 0]
  /\ contextDir_ = null

FormattingOps ==
  {"estimateDirection", "dirAttr", "dirAttrValue", "knownDirAttr",
   "knownDirAttrValue", "spanWrapSafeHtml", "spanWrapSafeHtmlWithKnownDir",
   "unicodeWrap", "unicodeWrapWithKnownDir", "markAfter", "markAfterKnownDir",
   "mark", "startEdge", "endEdge", "getContextDir", "getAlwaysSpan"}

\* C8: a formatting or query call changes neither the context nor the
\* always-span flag; setContextDir leaves the flag and setAlwaysSpan leaves
\* the context.
C8_Frame ==
  [][/\ op' \in FormattingOps =>
          contextDir_' = contextDir_ /\ alwaysSpan_' = alwaysSpan_
     /\ op' = "setContextDir" => alwaysSpan_' = alwaysSpan_
     /\ op' = "setAlwaysSpan" => contextDir_' = contextDir_]_vars

\* A wrap call made on a formatter with alwaysSpan set and an RTL context.
C8_Witness ==
  /\ op = "spanWrapSafeHtml" /\ alwaysSpan_ /\ contextDir_ = RTL
  /\ result # text

\* The mark of a context.
MarkOf(ctx) ==
  CASE ctx = LTR -> <<"LRM">> [] ctx = RTL -> <<"RLM">> [] OTHER -> <<>>

\* C9: mark() returns LRM in an LTR context, RLM in an RTL context and the
\* empty string in an UNKNOWN context; a mark() after a mark() returns the
\* same; and a mark() right after setContextDir(c) or construction with c
\* returns the mark of the context c stands for.
C9_Mark ==
  /\ [](op = "mark" => result = MarkOf(contextDir_))
  /\ [][op = "mark" /\ op' = "mark" => result' = result]_vars
  /\ [][(op \in {"BidiFormatter", "setContextDir"} /\ op' = "mark") =>
        (result' = MarkOf(InputContext(args.contextDir)))]_vars

C9_Witness == op = "mark" /\ contextDir_ = RTL /\ result = <<"RLM">>

\* C10: startEdge() is "right" and endEdge() "left" in an RTL context, and
\* "left" and "right" in an LTR or UNKNOWN context; the two always differ.
C10_Edges ==
  /\ op = "startEdge" =>
       result = (IF contextDir_ = RTL THEN "right" ELSE "left")
  /\ op = "endEdge" =>
       result = (IF contextDir_ = RTL THEN "left" ELSE "right")
  /\ startEdge # endEdge

C10_Witness == op = "endEdge" /\ contextDir_ = null /\ result = "right"

WrapOps ==
  {"unicodeWrap", "unicodeWrapWithKnownDir", "spanWrapSafeHtml",
   "spanWrapSafeHtmlWithKnownDir"}

\* C11: with dirReset false, alwaysSpan not set and dir equal to an LTR or RTL
\* context, spanWrapSafeHtmlWithKnownDir returns its input and
\* unicodeWrapWithKnownDir returns the text; and with dirReset false no wrap
\* operation puts an LRM or RLM in its result, whatever dir, context and text.
C11_PassThrough ==
  /\ (/\ op \in {"spanWrapSafeHtmlWithKnownDir", "unicodeWrapWithKnownDir"}
      /\ args.dirReset = "false"
      /\ args.dir \in {LTR, RTL} /\ args.dir = contextDir_
      /\ (op = "spanWrapSafeHtmlWithKnownDir" => ~alwaysSpan_))
     => result = text
  /\ (op \in WrapOps /\ args.dirReset = "false") => HasNoMark(result)

\* RTL text ending with an LTR word, passed through an RTL context.
C11_Witness ==
  /\ op = "spanWrapSafeHtmlWithKnownDir" /\ args.dirReset = "false"
  /\ args.dir = RTL /\ contextDir_ = RTL /\ ~alwaysSpan_
  /\ endsWithLtr(text, TRUE)
  /\ result = text

\* C12: spanWrapSafeHtmlWithKnownDir and unicodeWrapWithKnownDir called
\* without dirReset return what they return with dirReset true, and with
\* dirReset false their result ends with no mark.
C12_DirResetDefault ==
  /\ (op = "unicodeWrapWithKnownDir" /\ args.dirReset = undefined) =>
       result = unicodeWrapWithKnownDir(args.dir, text, args.isHtml, "true")
  /\ (op = "spanWrapSafeHtmlWithKnownDir" /\ args.dirReset = undefined) =>
       result = spanWrapSafeHtmlWithKnownDir(args.dir, text, "true")
  /\ (/\ op \in {"unicodeWrapWithKnownDir", "spanWrapSafeHtmlWithKnownDir"}
      /\ args.dirReset = "false") => TrailingMark(result) = <<>>

\* dirReset left out, RTL text in an LTR context: the LRM is appended.
C12_Witness ==
  /\ op = "unicodeWrapWithKnownDir" /\ args.dirReset = undefined
  /\ args.dir = RTL /\ contextDir_ = LTR
  /\ result = <<"RLE">> \o text \o <<"PDF", "LRM">>

\* C13: an operation on text of unknown direction returns what its
\* known-direction counterpart returns for the estimated direction (estimated
\* as HTML for spanWrapSafeHtml); a known-direction operation estimates iff its
\* dir is null, and a NEUTRAL dir is used as given: no embedding, no dir
\* attribute, and if there is a span it is bare.
C13_EstimateThenKnownDir ==
  /\ op = "dirAttr" =>
       result = knownDirAttr(estimateDirection(text, args.isHtml))
  /\ op = "dirAttrValue" =>
       result = knownDirAttrValue(estimateDirection(text, args.isHtml))
  /\ op = "unicodeWrap" =>
       result = unicodeWrapWithKnownDir(estimateDirection(text, args.isHtml),
                                        text, args.isHtml, args.dirReset)
  /\ op = "markAfter" =>
       result = markAfterKnownDir(estimateDirection(text, args.isHtml),
                                  text, args.isHtml)
  /\ op = "spanWrapSafeHtml" =>
       result = spanWrapSafeHtmlWithKnownDir(estimateDirection(text, TRUE),
                                             text, args.dirReset)
  /\ (op = "unicodeWrapWithKnownDir" /\ args.dir = null) =>
       result = unicodeWrapWithKnownDir(estimateDirection(text, args.isHtml),
                                        text, args.isHtml, args.dirReset)
  /\ (op = "markAfterKnownDir" /\ args.dir = null) =>
       result = markAfterKnownDir(estimateDirection(text, args.isHtml),
                                  text, args.isHtml)
  /\ (op = "spanWrapSafeHtmlWithKnownDir" /\ args.dir = null) =>
       result = spanWrapSafeHtmlWithKnownDir(estimateDirection(text, TRUE),
                                             text, args.dirReset)
  /\ (op = "unicodeWrapWithKnownDir" /\ args.dir = NEUTRAL) =>
       WithoutTrailingMark(result) = text
  /\ (op = "spanWrapSafeHtmlWithKnownDir" /\ args.dir = NEUTRAL) =>
       WithoutTrailingMark(result) =
         (IF alwaysSpan_ THEN <<"<span>">> \o text \o <<"</span>">> ELSE text)

\* NEUTRAL passed for text that would be estimated RTL, in an LTR context: no
\* embedding is added.
C13_Witness ==
  /\ op = "unicodeWrapWithKnownDir" /\ args.dir = NEUTRAL
  /\ estimateDirection(text, args.isHtml) = RTL /\ contextDir_ = LTR
  /\ args.dirReset = "true"
  /\ result = text \o <<"LRM">>

-----------------------------------------------------------------------------
(* Properties of goog.editor.PluginImpl.                                   *)

\* A call of a method on a receiver, as the claims name it.
Called(receiver, method, arguments) ==
  [on |-> receiver, method |-> method, arguments |-> arguments]

\* The last call was execCommand on a plugin with a registered field.
ExecCommandDone == op = "execCommand" /\ fieldObject # null
WasSilent == args.command \in silentCommands
OriginalArguments == <<args.command>> \o args.var_args

CountCalls(method) ==
  Cardinality({i \in DOMAIN calls : calls[i].method = method})

\* C14: for a command that is not silent execCommand calls, in this order,
\* stopChangeEvents(true, true) on the field (on Gecko only), the field's
\* dispatchBeforeChange, execCommandInternal with the original arguments, the
\* field's dispatchChange and its dispatchSelectionChangeEvent, each once, and
\* returns what execCommandInternal returns.
C14_ExecCommandOrder ==
  (ExecCommandDone /\ ~WasSilent) =>
    /\ calls =
         (IF GECKO
            THEN <<Called(fieldObject, "stopChangeEvents", <<"true", "true">>)>>
            ELSE <<>>)
         \o <<Called(fieldObject, "dispatchBeforeChange", <<>>),
              Called("this", "execCommandInternal", OriginalArguments),
              Called(fieldObject, "dispatchChange", <<>>),
              Called(fieldObject, "dispatchSelectionChangeEvent", <<>>)>>
    /\ CountCalls("dispatchBeforeChange") = 1
    /\ CountCalls("execCommandInternal") = 1
    /\ CountCalls("dispatchChange") = 1
    /\ args.internal.kind = "return" =>
         result.kind = "return" /\ result.value = args.internal.value

\* A command with an additional argument, on Gecko, returning a value.
C14_Witness ==
  /\ ExecCommandDone /\ ~WasSilent /\ GECKO
  /\ args.var_args = <<"arg">>
  /\ result = [kind |-> "return", value |-> "done"]
  /\ Len(calls) = 5

\* C15: when execCommandInternal throws, execCommand still calls
\* startChangeEvents(false, false) for a silent command, and dispatchChange
\* then dispatchSelectionChangeEvent for another, and then throws the same
\* exception; and whether it returns or throws, every stopChangeEvents it has
\* called is followed by a startChangeEvents or a dispatchChange.
C15_ChangeEventsBackOn ==
  ExecCommandDone =>
    /\ args.internal.kind = "throw" =>
         /\ result = [kind |-> "throw", error |-> args.internal.error]
         /\ \E i \in DOMAIN calls :
              /\ calls[i].method = "execCommandInternal"
              /\ SubSeq(calls, i + 1, Len(calls)) =
                   (IF WasSilent
                      THEN <<Called(fieldObject, "startChangeEvents",
                                    <<"false", "false">>)>>
                      ELSE <<Called(fieldObject, "dispatchChange", <<>>),
                             Called(fieldObject,
                                    "dispatchSelectionChangeEvent", <<>>)>>)
    /\ \A i \in DOMAIN calls :
         calls[i].method = "stopChangeEvents" =>
           \E j \in DOMAIN calls :
             /\ j > i
             /\ calls[j].method \in {"startChangeEvents", "dispatchChange"}

\* A silent command whose execCommandInternal throws.
C15_Witness ==
  /\ ExecCommandDone /\ WasSilent
  /\ args.internal.kind = "throw" /\ result.kind = "throw"
  /\ calls[Len(calls)].method = "startChangeEvents"

\* C16: for a silent command execCommand calls stopChangeEvents(true, true),
\* execCommandInternal and startChangeEvents(false, false), in this order, and
\* none of dispatchBeforeChange, dispatchChange, dispatchSelectionChangeEvent.
C16_SilentCommand ==
  (ExecCommandDone /\ WasSilent) =>
    /\ calls =
         <<Called(fieldObject, "stopChangeEvents", <<"true", "true">>),
           Called("this", "execCommandInternal", OriginalArguments),
           Called(fieldObject, "startChangeEvents", <<"false", "false">>)>>
    /\ CountCalls("dispatchBeforeChange") = 0
    /\ CountCalls("dispatchChange") = 0
    /\ CountCalls("dispatchSelectionChangeEvent") = 0

C16_Witness ==
  /\ ExecCommandDone /\ WasSilent /\ args.internal.kind = "return"
  /\ Len(calls) = 3

\* C17: isEnabled(f) returns false when f is not the registered field object,
\* and the enabled flag when it is.
C17_IsEnabled ==
  op = "isEnabled" =>
    /\ args.fieldObject # fieldObject => result = FALSE
    /\ args.fieldObject = fieldObject => result = enabled_

\* The plugin is enabled for field1 and asked about field2.
C17_Witness ==
  /\ op = "isEnabled" /\ enabled_ /\ fieldObject = "field1"
  /\ args.fieldObject = "field2" /\ result = FALSE

C18_EnableStep ==
  op' = "enable" =>
    IF args'.fieldObject = fieldObject
      THEN enabled_' /\ logged' = NoLog /\ fieldObject' = fieldObject
      ELSE logged' # NoLog /\ UNCHANGED <<enabled_, fieldObject>>

C18_DisableStep ==
  op' = "disable" =>
    IF args'.fieldObject = fieldObject
      THEN ~enabled_' /\ logged' = NoLog /\ fieldObject' = fieldObject
      ELSE logged' # NoLog /\ UNCHANGED <<enabled_, fieldObject>>

\* C18: enable(f) sets the enabled flag and disable(f) clears it when f is the
\* registered field object; when it is not, the call logs an error and leaves
\* the flag and the registered field as they were.
C18_EnableDisable == [][C18_EnableStep /\ C18_DisableStep]_vars

\* enable(field2) on a disabled plugin registered with field1.
C18_Witness ==
  /\ op = "enable" /\ fieldObject = "field1" /\ args.fieldObject = "field2"
  /\ ~enabled_ /\ logged # NoLog

C19_UnregisterStep ==
  op' \in {"unregisterFieldObject", "disposeInternal"} =>
    IF fieldObject # null
      THEN fieldObject' = null /\ ~enabled_'
      ELSE UNCHANGED <<enabled_, fieldObject>>

C19_StaysDisabled ==
  /\ (~enabled_ /\ enabled_') => op' = "enable"
  /\ (op' = "registerFieldObject" /\ ~enabled_) =>
       (fieldObject' = args'.fieldObject /\ ~enabled_')

\* C19: unregisterFieldObject(x), and disposeInternal, called while a field is
\* registered clears the registration and the enabled flag, whatever x is,
\* and changes nothing while no field is registered; a plugin that is not
\* enabled stays so until enable is called, also through registerFieldObject.
C19_Unregister == [][C19_UnregisterStep /\ C19_StaysDisabled]_vars

\* unregisterFieldObject(field2) has left the plugin unregistered and
\* disabled.
C19_Witness ==
  /\ op = "unregisterFieldObject" /\ args.fieldObj = "field2"
  /\ fieldObject = null /\ ~enabled_

-----------------------------------------------------------------------------
(* Properties of goog.testing.DeferredTestCase.                            *)

\* The step is a waitForDeferred that got past its switch.
WaitForDeferredStep ==
  op' = "waitForDeferred" /\ Len(args') \in {1, 2} /\ ~fired /\ fired'

\* The places of calls' where the method is called.
PlacesOf(method) == {i \in 1..Len(calls') : calls'[i].method = method}

\* The callbacks added before the step, up to the first that throws.
FirstFailure ==
  LET failing == {i \in 1..Len(chain) : Throws(chain[i].callback)}
  IN IF failing = {} THEN 0
     ELSE CHOOSE i \in failing : \A j \in failing : i <= j

C20_Order ==
  /\ Len(calls') >= 4
  /\ calls'[1].on = DeferredObject /\ calls'[1].method = "addCallbacks"
  /\ calls'[1].arguments = <<"onSuccess", "onError", "this">>
  /\ calls'[2].on = "this" /\ calls'[2].method = "waitForAsync"
  /\ calls'[3].on = DeferredObject /\ calls'[3].method = "callback"
  /\ calls'[3].arguments = <<"true">>
  /\ PlacesOf("addCallbacks") = {1} /\ PlacesOf("callback") = {3}

C20_Outcome ==
  LET n == Len(chain)
      k == FirstFailure
      ran == IF k = 0 THEN n ELSE k
  IN /\ Len(calls') = ran + 4
     /\ \A i \in 1..ran :
          /\ calls'[3 + i].method = chain[i].callback.fn
          /\ calls'[3 + i].arguments = chain[i].callback.bound
     /\ IF k = 0
          THEN /\ PlacesOf("continueTesting") = {n + 4}
               /\ PlacesOf("doAsyncError") = {}
               /\ testState' = "running"
          ELSE /\ PlacesOf("doAsyncError") = {k + 4}
               /\ PlacesOf("continueTesting") = {}
               /\ testState' = "failed"
     /\ \A i \in PlacesOf("continueTesting") \cup PlacesOf("doAsyncError") :
          \E j \in PlacesOf("waitForAsync") : j < i

\* C20: a waitForDeferred that got past its switch calls, in this order,
\* deferred.addCallbacks(onSuccess, onError, this), this.waitForAsync and
\* deferred.callback(true), each of the first and the last once; the
\* callbacks added to the Deferred before then run in the order they were
\* added, up to the first that throws; continueTesting is called once, after
\* all of them, if none throws and doAsyncError not at all; doAsyncError is
\* called once, right after the one that throws, and continueTesting not at
\* all otherwise; and neither is called before a waitForAsync.
C20_WaitForDeferredOrder ==
  [][WaitForDeferredStep => (C20_Order /\ C20_Outcome)]_vars

\* waitForDeferred(deferred) after a waitForAsync callback and a passing
\* callback were added: both ran and then the test continued.
C20_Witness ==
  /\ op = "waitForDeferred" /\ fired /\ Len(calls) = 6
  /\ calls[2].method = "waitForAsync" /\ calls[3].method = "callback"
  /\ calls[4].method = "waitForAsync" /\ calls[5].method = "passes"
  /\ calls[6].method = "continueTesting"

\* The default wait message of the step at hand.
DefaultWaitMsg == "Waiting for deferred in " \o stepName

C21_Dispatch(deferred, waitMsg) ==
  /\ result'.kind = "return" /\ fired'
  /\ calls'[1].on = deferred /\ calls'[1].method = "addCallbacks"
  /\ calls'[2] = TestCaseCall("waitForAsync", <<waitMsg>>)
  /\ calls'[3].on = deferred /\ calls'[3].method = "callback"

C21_Step ==
  op' = "waitForDeferred" =>
    CASE Len(args') = 1 -> C21_Dispatch(args'[1], DefaultWaitMsg)
      [] Len(args') = 2 ->
           C21_Dispatch(args'[2],
                        IF args'[1] \in {"", null, undefined}
                          THEN DefaultWaitMsg ELSE args'[1])
      [] OTHER ->
           /\ result'.kind = "throw"
           /\ result'.error = "Invalid number of arguments"
           /\ calls' = <<>>
           /\ UNCHANGED <<chain, fired, testState>>

\* C21: waitForDeferred(d) wires and fires d and waits with the message
\* 'Waiting for deferred in ' + the current step name; waitForDeferred(m, d)
\* wires and fires d and waits with m, or with that default message when m is
\* empty, null or undefined; with any other number of arguments it throws
\* Error('Invalid number of arguments') having called nothing and having
\* left the Deferred and the test case as they were.
C21_ArgumentDispatch == [][C21_Step]_vars

\* waitForDeferred(m, d, extra) has thrown after a callback was added: the
\* callback is still waiting on a Deferred that has not fired.
C21_Witness ==
  /\ op = "waitForDeferred" /\ Len(args) = 3
  /\ result.kind = "throw" /\ calls = <<>>
  /\ ~fired /\ Len(chain) > 0

-----------------------------------------------------------------------------
(* Properties of goog.ui.ColorPalette.                                     *)

\* The color is one goog.color parses.
IsColor(color) == color # null /\ ~ColorParse(color).thrown

\* The indexes of the palette colors that normalize to the hex of the color.
SameHex(color) ==
  {i \in 0..(Len(colors_) - 1) :
     /\ IsColor(colors_[i + 1])
     /\ ColorParse(colors_[i + 1]).hex = ColorParse(color).hex}

\* C22: setSelectedColor(color) calls setSelectedIndex once: with -1 when
\* color is null or is no color; else with the least index of a palette
\* color that normalizes to the same hex as color, whatever format either is
\* written in; and with -1 when there is no such palette color.
C22_SetSelectedColor ==
  op = "setSelectedColor" =>
    /\ Len(calls) = 1
    /\ calls[1].method = "setSelectedIndex"
    /\ LET color == args.color
       IN calls[1].arguments =
            <<IF ~IsColor(color) \/ SameHex(color) = {}
                THEN -1
                ELSE CHOOSE i \in SameHex(color) :
                       \A j \in SameHex(color) : i <= j>>

\* setSelectedColor('rgb(255, 0, 0)') on a palette of blue in hex and red by
\* name selects index 1.
C22_Witness ==
  /\ op = "setSelectedColor" /\ args.color = "rgb(255, 0, 0)"
  /\ colors_ = <<"#00f", "red">>
  /\ calls[1].arguments = <<1>>

\* The swatches handed to setContent by the setColors made last.
Swatches == calls[1].arguments[1]

\* The title of swatch i that comes from the color alone.
ColorTitle(i) ==
  IF StartsWithHash(colors_[i])
    THEN "RGB (" \o HexToRgbJoined(colors_[i]) \o ")"
    ELSE colors_[i]

-----------------------------------------------------------------------------
(* Further properties of goog.i18n.BidiFormatter.                          *)

C24_Step ==
  op' = "areDirectionalitiesOpposite_" =>
    /\ result' = ((args'.dir1 = LTR /\ args'.dir2 = RTL) \/
                  (args'.dir1 = RTL /\ args'.dir2 = LTR))
    /\ ({args'.dir1, args'.dir2} \cap {NEUTRAL, null} # {}) => ~result'
    /\ (args'.dir1 = args'.dir2) => ~result'
    /\ (/\ op = "areDirectionalitiesOpposite_"
        /\ args.dir1 = args'.dir2 /\ args.dir2 = args'.dir1) =>
         result' = result

\* C24: areDirectionalitiesOpposite_(d1, d2) is true exactly when one of d1,
\* d2 is LTR and the other RTL; it is false when either is NEUTRAL or null
\* and when the two are equal, and the call with the two arguments exchanged
\* returns the same.
C24_Opposite == [][C24_Step]_vars

\* areDirectionalitiesOpposite_(RTL, LTR) returned true.
C24_Witness ==
  /\ op = "areDirectionalitiesOpposite_"
  /\ args.dir1 = RTL /\ args.dir2 = LTR
  /\ result = TRUE

\* The container spanWrapSafeHtmlWithKnownDir may put around the text.
Containers ==
  {text} \cup
  {<<open>> \o text \o <<"</span>">> :
     open \in {"<span>", "<span dir=\"rtl\">", "<span dir=\"ltr\">"}}

C25_Step ==
  (op' = "spanWrapSafeHtmlWithKnownDir" /\ args'.dirReset # "false") =>
    /\ TrailingMark(result') = markAfterKnownDir(args'.dir, text, TRUE)
    /\ WithoutTrailingMark(result') \in Containers
    /\ (/\ op = "markAfterKnownDir" /\ args.isHtml
        /\ args.dir = args'.dir) => TrailingMark(result') = result

\* C25: with dirReset true (or left out), spanWrapSafeHtmlWithKnownDir(dir,
\* html) returns the text, in a container or not, followed by a mark that is
\* what markAfterKnownDir(dir, text of html, true) returns, after the
\* container's closing tag, and the mark a markAfterKnownDir(dir, text, true)
\* call made just before has returned: a value that depends on dir, the text
\* and the context only, not on alwaysSpan or on a container being there.
C25_MarkFromOriginalText == [][C25_Step]_vars

\* RTL markup ending with a tag in an LTR context and alwaysSpan set: the
\* mark follows the closing tag of the container.
C25_Witness ==
  /\ op = "spanWrapSafeHtmlWithKnownDir" /\ args.dirReset = "true"
  /\ args.dir = LTR /\ contextDir_ = LTR /\ alwaysSpan_
  /\ text = <<"R", "T">>
  /\ result = <<"<span>", "R", "T", "</span>", "LRM">>

\* The text at hand is direction-neutral, as markup or as plain text.
NeutralText(isHtml) ==
  /\ estimateDirection(text, isHtml) = NEUTRAL
  /\ ~endsWithRtl(text, isHtml)
  /\ ~endsWithLtr(text, isHtml)

\* C26: for a text whose estimated direction is NEUTRAL and that ends with
\* neither RTL nor LTR, in every context: unicodeWrap returns the text,
\* markAfter and dirAttr return the empty string, and spanWrapSafeHtml
\* returns the text, within a span without attributes when alwaysSpan is set
\* and bare when it is not.
C26_NeutralPassThrough ==
  /\ (op = "unicodeWrap" /\ NeutralText(args.isHtml)) => result = text
  /\ (op = "markAfter" /\ NeutralText(args.isHtml)) => result = <<>>
  /\ (op = "dirAttr" /\ NeutralText(args.isHtml)) => result = ""
  /\ (op = "spanWrapSafeHtml" /\ NeutralText(TRUE)) =>
       result = IF alwaysSpan_
                  THEN <<"<span>">> \o text \o <<"</span>">>
                  ELSE text

\* Neutral markup in an RTL context with alwaysSpan set.
C26_Witness ==
  /\ op = "spanWrapSafeHtml" /\ alwaysSpan_ /\ contextDir_ = RTL
  /\ text = <<"T", "N">>
  /\ result = <<"<span>", "T", "N", "</span>">>

-----------------------------------------------------------------------------
(* Properties of goog.ui.CustomButtonRenderer.                             *)

\* The identities of the nodes of a list, in order.
IdsOf(childNodes) == [i \in DOMAIN childNodes |-> childNodes[i].id]

\* The first child of the node that is an element, as a set of positions.
FirstElementAt(node) ==
  {i \in DOMAIN node.childNodes :
     /\ node.childNodes[i].nodeType = ELEMENT
     /\ \A j \in 1..(i - 1) : node.childNodes[j].nodeType # ELEMENT}

\* The node's first element child is an outer box whose first element child
\* is an inner box.
BoxStructure(node) ==
  \E i \in FirstElementAt(node) :
    /\ OuterBoxClass \in node.childNodes[i].classes
    /\ \E j \in FirstElementAt(node.childNodes[i]) :
         InnerBoxClass \in node.childNodes[i].childNodes[j].classes

\* The whitespace-only text nodes at the start and at the end of a list.
IsBlankText(node) ==
  node.nodeType = TEXT /\ \A i \in DOMAIN node.nodeValue : node.nodeValue[i] = " "
Trimmed(childNodes) ==
  {i \in DOMAIN childNodes :
     \/ \A j \in 1..i : IsBlankText(childNodes[j])
     \/ \A j \in i..Len(childNodes) : IsBlankText(childNodes[j])}

\* The identities of a list's nodes without those of the given positions.
RECURSIVE IdsWithout(_, _, _)
IdsWithout(childNodes, dropped, i) ==
  IF i > Len(childNodes) THEN <<>>
  ELSE (IF i \in dropped THEN <<>> ELSE <<childNodes[i].id>>) \o
       IdsWithout(childNodes, dropped, i + 1)

\* After decorate the element has the box structure, and a second decorate
\* changes nothing.
C27_BoxOnce ==
  op' = "decorate" =>
    /\ BoxStructure(element') /\ hasBoxStructure(element')
    /\ BoxStructure(element) =>
         Len(element'.childNodes) <= Len(element.childNodes)
    /\ op = "decorate" => element' = element

\* The nodes that decorate has put into the inner box it made.
InnerBoxNodes == element'.childNodes[1].childNodes[1].childNodes

\* The claim as stated: all the previous child nodes of an element without
\* the box structure are in the inner box, in their order.
C27_AllChildrenKept ==
  (op' = "decorate" /\ ~BoxStructure(element)) =>
    /\ Len(element'.childNodes) = 1
    /\ IdsOf(InnerBoxNodes) = IdsOf(element.childNodes)

C27_AsStated == [][C27_BoxOnce /\ C27_AllChildrenKept]_vars

C27_TrimmedChildrenKept ==
  (op' = "decorate" /\ ~BoxStructure(element)) =>
    /\ Len(element'.childNodes) = 1
    /\ IdsOf(InnerBoxNodes) =
         IdsWithout(element.childNodes, Trimmed(element.childNodes), 1)
    /\ \A i \in DOMAIN InnerBoxNodes :
         InnerBoxNodes[i].nodeType = ELEMENT =>
           \E j \in DOMAIN element.childNodes :
             element.childNodes[j] = InnerBoxNodes[i]

\* C27 (amended): after decorate(control, element) the element's first
\* element child is an outer box whose first element child is an inner box
\* (hasBoxStructure is true); when the element had no box structure, its
\* previous child nodes other than the whitespace-only text nodes at the
\* start and at the end of its child list, which decorate removes, are
\* inside the inner box in their original order, the elements among them
\* unchanged; an element that has the box structure gets no further child,
\* and a second decorate leaves the element as the first left it.
C27_DecorateBoxStructure == [][C27_BoxOnce /\ C27_TrimmedChildrenKept]_vars

\* decorate has boxed an element that had a whitespace text node and a SPAN:
\* the inner box holds the SPAN alone.
C27_Witness ==
  /\ op = "decorate"
  /\ Len(element.childNodes) = 1
  /\ element.childNodes[1].id = "outer"
  /\ IdsOf(element.childNodes[1].childNodes[1].childNodes) = <<"n2">>

====
